---- MODULE Spec2Model ----
(***************************************************************************)
(* Model of auditor/evaluation/generative.py: the LLMEval orchestration.   *)
(*                                                                         *)
(* Strings are sequences of one-character strings, so that concatenation   *)
(* in construct_llm_input is real concatenation.  An Optional[T] value is  *)
(* a sequence of length at most one: <<>> is None, <<v>> is the value v.   *)
(* One evaluate_* call runs at a time (the code is sequential); each       *)
(* collaborator call (model, paraphraser, behaviour checker) is one step,  *)
(* and its outcome (a value or a raised exception) is chosen by the        *)
(* environment.                                                            *)
(***************************************************************************)
EXTENDS Integers, Sequences, FiniteSets, TLC

VARIABLES
    pc,                    \* position of the running call
    args,                  \* arguments of the running evaluate_* call
    reference_generation,  \* local of _evaluate_generations (Optional[str])
    prompt_perturbations,  \* local of _evaluate_generations (Optional[List[str]])
    evaluate_prompts,      \* local: the prompts to evaluate
    alternative_generations, \* local: generations fetched so far
    llm_calls,             \* every call self.llm(llm_input) made by this call
    paraphrase_calls,      \* every PerturbText(...).paraphrase() made
    check_calls,           \* every expected_behavior.check(...) made
    trace,                 \* the collaborator calls in the order made
    result,                \* Optional[LLMEvalResult] returned to the caller
    raised                 \* Optional[exception] that reached the caller

vars == <<pc, args, reference_generation, prompt_perturbations,
          evaluate_prompts, alternative_generations, llm_calls,
          paraphrase_calls, check_calls, trace, result, raised>>

\* ---------------------------------------------------------------- bounds
MaxCand == 2        \* longest caller-supplied candidate list
MaxPerturb == 2     \* largest perturbations_per_sample

\* ---------------------------------------------------------------- values
None == <<>>
Some(v) == <<v>>
IsNone(o) == o = <<>>
Val(o) == o[1]

Range(s) == {s[i] : i \in 1..Len(s)}
SeqsUpTo(S, n) == UNION {[1..k -> S] : k \in 0..n}

Prompts == {<<"p">>, <<"q">>}
\* The prompt of the call; the candidates range over all of Prompts, so the
\* choice of the original among them is immaterial.
OriginalPrompts == {<<"p">>}
PreContexts == {None, Some(<<>>), Some(<<"c">>)}
PostContexts == {None, Some(<<"e">>)}
Generations == {<<"x">>, <<"y">>}
References == {<<"r">>}
LLMErrors == {<<"Timeout">>}
PerturbationErrors == {<<"PerturbationError">>}
CheckErrors == {<<"CheckError">>}
Metrics == {<<TRUE, 1>>, <<FALSE, 0>>}

robustness == "robustness"
correctness == "correctness"

NoArgs == [evaluation_type |-> robustness, prompt |-> <<>>,
           perturbations_per_sample |-> 1,
           pre_context |-> None, post_context |-> None,
           reference_generation |-> None, prompt_perturbations |-> None]

\* ------------------------------------------------------- pure functions
delimiter == <<" ">>

\* construct_llm_input that forgets the delimiter in front of post_context.
construct_llm_input_nodelim(prompt, pre_context, post_context) ==
    LET full_prompt == IF ~IsNone(pre_context)
                       THEN Val(pre_context) \o delimiter \o prompt
                       ELSE prompt
    IN  IF ~IsNone(post_context)
        THEN full_prompt \o Val(post_context)
        ELSE full_prompt

construct_llm_input(prompt, pre_context, post_context) ==
    LET full_prompt == IF ~IsNone(pre_context)
                       THEN Val(pre_context) \o delimiter \o prompt
                       ELSE prompt
    IN  IF ~IsNone(post_context)
        THEN full_prompt \o delimiter \o Val(post_context)
        ELSE full_prompt

\* What PerturbText(...).paraphrase().data[0] can be: the original prompt
\* followed by at most perturbations_per_sample paraphrases.
ParaphraseData(prompt, perturbations_per_sample) ==
    {<<prompt>> \o s : s \in SeqsUpTo(Prompts, perturbations_per_sample)}

\* The slice taken as if return_original were set.
ReturnedPerturbationsAll(data0, return_original) == data0

\* generate_alternative_prompts: the slice taken from data[0].
ReturnedPerturbations(data0, return_original) ==
    IF return_original THEN data0 ELSE Tail(data0)

\* What expected_behavior.check can return: one pair per generation.
CheckOutputs(perturbed_generations) ==
    [1..Len(perturbed_generations) -> Metrics]

\* The test of line 70 inverted.
ReferenceAbsentInverted(ref) == ~IsNone(ref)

ReferenceAbsent(ref) == IsNone(ref)

\* The test of line 81 written as a truthiness test ("if not ...").
PerturbationsFalsy(perts) == IsNone(perts) \/ perts = Some(<<>>)

PerturbationsAbsent(perts) == IsNone(perts)

\* The mode test of line 87 never true.
EvaluatePromptsNoOriginal(evaluation_type, prompt, perts) == perts

EvaluatePrompts(evaluation_type, prompt, perts) ==
    IF evaluation_type = correctness
    THEN <<prompt>> \o perts
    ELSE perts

\* The generation put in front of the list instead of behind it.
PrependGeneration(gens, resp) == <<resp>> \o gens

AppendGeneration(gens, resp) == Append(gens, resp)

\* The loop leaving one prompt early.
AllGeneratedEarly == Len(alternative_generations) + 1 >= Len(evaluate_prompts)

\* The for loop over evaluate_prompts has run out of prompts.
AllGenerated == Len(alternative_generations) >= Len(evaluate_prompts)

NextPrompt == evaluate_prompts[Len(alternative_generations) + 1]

\* The result built with the candidate list instead of evaluate_prompts.
LLMEvalResultCandidates(metric) ==
    [original_prompt |-> args.prompt,
     pre_context |-> args.pre_context,
     post_context |-> args.post_context,
     reference_generation |-> Val(reference_generation),
     perturbed_prompts |-> Val(prompt_perturbations),
     perturbed_generations |-> alternative_generations,
     result |-> [i \in 1..Len(metric) |-> metric[i][1]],
     metric |-> [i \in 1..Len(metric) |-> metric[i][2]],
     evaluation_type |-> args.evaluation_type]

\* The fields of the result the evaluation computes; generation_kwargs and
\* expected_behavior_desc are read off the collaborators and left out.
LLMEvalResult(metric) ==
    [original_prompt |-> args.prompt,
     pre_context |-> args.pre_context,
     post_context |-> args.post_context,
     reference_generation |-> Val(reference_generation),
     perturbed_prompts |-> evaluate_prompts,
     perturbed_generations |-> alternative_generations,
     result |-> [i \in 1..Len(metric) |-> metric[i][1]],
     metric |-> [i \in 1..Len(metric) |-> metric[i][2]],
     evaluation_type |-> args.evaluation_type]

\* ----------------------------------------------------------------- Init
Init ==
    /\ pc = "idle"
    /\ args = NoArgs
    /\ reference_generation = None
    /\ prompt_perturbations = None
    /\ evaluate_prompts = <<>>
    /\ alternative_generations = <<>>
    /\ llm_calls = <<>>
    /\ paraphrase_calls = <<>>
    /\ check_calls = <<>>
    /\ trace = <<>>
    /\ result = None
    /\ raised = None

\* -------------------------------------------------------------- actions
Enter(a) ==
    /\ pc = "idle"
    /\ args' = a
    /\ reference_generation' = a.reference_generation
    /\ prompt_perturbations' = a.prompt_perturbations
    /\ evaluate_prompts' = <<>>
    /\ alternative_generations' = <<>>
    /\ llm_calls' = <<>>
    /\ paraphrase_calls' = <<>>
    /\ check_calls' = <<>>
    /\ trace' = <<>>
    /\ result' = None
    /\ raised' = None
    /\ pc' = "resolve_reference"

evaluate_prompt_robustness(prompt, perturbations_per_sample, pre_context, post_context, perts) ==
    Enter([evaluation_type |-> robustness, prompt |-> prompt,
           perturbations_per_sample |-> perturbations_per_sample,
           pre_context |-> pre_context, post_context |-> post_context,
           reference_generation |-> None,
           prompt_perturbations |-> perts])

evaluate_prompt_correctness(prompt, ref, perturbations_per_sample, pre_context, post_context, alternative_prompts) ==
    Enter([evaluation_type |-> correctness, prompt |-> prompt,
           perturbations_per_sample |-> perturbations_per_sample,
           pre_context |-> pre_context, post_context |-> post_context,
           reference_generation |-> ref,
           prompt_perturbations |-> alternative_prompts])

\* _get_generation raising a new error in place of the one it caught.
get_generation_wrapped(prompt, ok, val) ==
    /\ llm_calls' = Append(llm_calls,
           [input |-> construct_llm_input(prompt, args.pre_context,
                                          args.post_context),
            phase |-> pc, ok |-> ok, val |-> val])
    /\ trace' = Append(trace, [kind |-> "llm", phase |-> pc])
    /\ raised' = IF ok THEN raised ELSE Some(<<"GenerationError">>)

\* _get_generation: one model call; the exception, if any, is re-raised.
get_generation(prompt, ok, val) ==
    /\ llm_calls' = Append(llm_calls,
           [input |-> construct_llm_input(prompt, args.pre_context,
                                          args.post_context),
            phase |-> pc, ok |-> ok, val |-> val])
    /\ trace' = Append(trace, [kind |-> "llm", phase |-> pc])
    /\ raised' = IF ok THEN raised ELSE Some(val)

FetchReference ==
    /\ pc = "resolve_reference"
    /\ ReferenceAbsent(reference_generation)
    /\ \/ \E g \in Generations :
            /\ get_generation(args.prompt, TRUE, g)
            /\ reference_generation' = Some(g)
            /\ pc' = "resolve_candidates"
       \/ \E e \in LLMErrors :
            /\ get_generation(args.prompt, FALSE, e)
            /\ reference_generation' = reference_generation
            /\ pc' = "raised"
    /\ UNCHANGED <<args, prompt_perturbations, evaluate_prompts,
                   alternative_generations, paraphrase_calls, check_calls,
                   result>>

KeepReference ==
    /\ pc = "resolve_reference"
    /\ ~ReferenceAbsent(reference_generation)
    /\ pc' = "resolve_candidates"
    /\ UNCHANGED <<args, reference_generation, prompt_perturbations,
                   evaluate_prompts, alternative_generations, llm_calls,
                   paraphrase_calls, check_calls, trace, result, raised>>

generate_alternative_prompts ==
    /\ pc = "resolve_candidates"
    /\ PerturbationsAbsent(prompt_perturbations)
    /\ trace' = Append(trace, [kind |-> "paraphrase", phase |-> pc])
    /\ \/ \E data0 \in ParaphraseData(args.prompt,
                                      args.perturbations_per_sample) :
            LET perts == ReturnedPerturbations(data0, FALSE) IN
            /\ paraphrase_calls' = Append(paraphrase_calls,
                   [prompt |-> args.prompt,
                    perturbations_per_sample |-> args.perturbations_per_sample,
                    ok |-> TRUE, data |-> data0])
            /\ prompt_perturbations' = Some(perts)
            /\ evaluate_prompts' =
                   EvaluatePrompts(args.evaluation_type, args.prompt, perts)
            /\ raised' = raised
            /\ pc' = "generate_all"
       \/ \E e \in PerturbationErrors :
            /\ paraphrase_calls' = Append(paraphrase_calls,
                   [prompt |-> args.prompt,
                    perturbations_per_sample |-> args.perturbations_per_sample,
                    ok |-> FALSE, data |-> <<>>])
            /\ raised' = Some(e)
            /\ UNCHANGED <<prompt_perturbations, evaluate_prompts>>
            /\ pc' = "raised"
    /\ UNCHANGED <<args, reference_generation, alternative_generations,
                   llm_calls, check_calls, result>>

KeepPerturbations ==
    /\ pc = "resolve_candidates"
    /\ ~PerturbationsAbsent(prompt_perturbations)
    /\ evaluate_prompts' = EvaluatePrompts(args.evaluation_type, args.prompt,
                                           Val(prompt_perturbations))
    /\ pc' = "generate_all"
    /\ UNCHANGED <<args, reference_generation, prompt_perturbations,
                   alternative_generations, llm_calls, paraphrase_calls,
                   check_calls, trace, result, raised>>

GenerateNext ==
    /\ pc = "generate_all"
    /\ ~AllGenerated
    /\ \/ \E g \in Generations :
            /\ get_generation(NextPrompt, TRUE, g)
            /\ alternative_generations' =
                   AppendGeneration(alternative_generations, g)
            /\ pc' = pc
       \/ \E e \in LLMErrors :
            /\ get_generation(NextPrompt, FALSE, e)
            /\ alternative_generations' = alternative_generations
            /\ pc' = "raised"
    /\ UNCHANGED <<args, reference_generation, prompt_perturbations,
                   evaluate_prompts, paraphrase_calls, check_calls, result>>

CheckBehavior ==
    /\ pc = "generate_all"
    /\ AllGenerated
    /\ trace' = Append(trace, [kind |-> "check", phase |-> pc])
    /\ \/ \E metric \in CheckOutputs(alternative_generations) :
            /\ check_calls' = Append(check_calls,
                   [reference_generation |-> Val(reference_generation),
                    perturbed_generations |-> alternative_generations,
                    ok |-> TRUE, metric |-> metric])
            /\ result' = Some(LLMEvalResult(metric))
            /\ raised' = raised
            /\ pc' = "done"
       \/ \E e \in CheckErrors :
            /\ check_calls' = Append(check_calls,
                   [reference_generation |-> Val(reference_generation),
                    perturbed_generations |-> alternative_generations,
                    ok |-> FALSE, metric |-> <<>>])
            /\ result' = result
            /\ raised' = Some(e)
            /\ pc' = "raised"
    /\ UNCHANGED <<args, reference_generation, prompt_perturbations,
                   evaluate_prompts, alternative_generations, llm_calls,
                   paraphrase_calls>>

\* The call has returned or raised; nothing of it survives in the engine.
Return ==
    /\ pc \in {"done", "raised"}
    /\ pc' = "idle"
    /\ args' = NoArgs
    /\ reference_generation' = None
    /\ prompt_perturbations' = None
    /\ evaluate_prompts' = <<>>
    /\ alternative_generations' = <<>>
    /\ llm_calls' = <<>>
    /\ paraphrase_calls' = <<>>
    /\ check_calls' = <<>>
    /\ trace' = <<>>
    /\ result' = None
    /\ raised' = None

OptCandidates == {None} \cup {Some(s) : s \in SeqsUpTo(Prompts, MaxCand)}
OptReferences == {None} \cup {Some(r) : r \in References}

CallRobustness ==
    \E p \in OriginalPrompts, n \in 1..MaxPerturb, pre \in PreContexts,
       post \in PostContexts, c \in OptCandidates :
        evaluate_prompt_robustness(p, n, pre, post, c)

CallCorrectness ==
    \E p \in OriginalPrompts, r \in OptReferences, n \in 1..MaxPerturb,
       pre \in PreContexts, post \in PostContexts, c \in OptCandidates :
        evaluate_prompt_correctness(p, r, n, pre, post, c)

Next ==
    \/ CallRobustness
    \/ CallCorrectness
    \/ FetchReference
    \/ KeepReference
    \/ generate_alternative_prompts
    \/ KeepPerturbations
    \/ GenerateNext
    \/ CheckBehavior
    \/ Return

Spec == Init /\ [][Next]_vars

TypeOK == pc \in {"idle", "resolve_reference", "resolve_candidates",
                  "generate_all", "done", "raised"}

\* ================================================================ claims
Running == pc # "idle"
Done == pc = "done"
R == Val(result)
IsRobustness == Running /\ args.evaluation_type = robustness
IsCorrectness == Running /\ args.evaluation_type = correctness
CandidatesSupplied == Running /\ ~IsNone(args.prompt_perturbations)
ReferenceSupplied == Running /\ ~IsNone(args.reference_generation)
Paraphrased == Len(paraphrase_calls) = 1 /\ paraphrase_calls[1].ok
\* The candidate prompts of the call: the caller's, or the paraphrases at
\* index 1..count of what the paraphraser returned.
Candidates ==
    IF CandidatesSupplied THEN Val(args.prompt_perturbations)
    ELSE SubSeq(paraphrase_calls[1].data, 2, Len(paraphrase_calls[1].data))
\* assemble(p, pre_context, post_context) as the specification words it.
Assembled(p) ==
    (IF IsNone(args.pre_context) THEN <<>>
     ELSE Val(args.pre_context) \o <<" ">>)
    \o p \o
    (IF IsNone(args.post_context) THEN <<>>
     ELSE <<" ">> \o Val(args.post_context))
\* Number of model calls made to obtain the reference.
RefCalls ==
    Cardinality({i \in 1..Len(llm_calls) :
                    llm_calls[i].phase = "resolve_reference"})

\* C1: in every returned result the evaluated prompts, the evaluated
\* generations, the pass flags and the scores have the same length.
C1_LengthInvariant ==
    Done => /\ Len(R.perturbed_prompts) = Len(R.perturbed_generations)
            /\ Len(R.perturbed_generations) = Len(R.result)
            /\ Len(R.result) = Len(R.metric)

C1_Witness ==
    /\ Done /\ IsCorrectness
    /\ Len(R.perturbed_prompts) >= 2
    /\ Len(R.metric) >= 2

\* C2: a successful evaluate_correctness call evaluates exactly the original
\* prompt followed by the candidate prompts in their order, whether the
\* candidates were supplied or paraphrased.
C2_CorrectnessInclusion ==
    (Done /\ IsCorrectness) =>
        /\ R.perturbed_prompts = <<args.prompt>> \o Candidates
        /\ R.perturbed_prompts[1] = R.original_prompt

C2_Witness ==
    /\ Done /\ IsCorrectness /\ ~CandidatesSupplied /\ Paraphrased
    /\ Len(R.perturbed_prompts) >= 2
    /\ R.perturbed_prompts[2] # args.prompt

\* C3 (as claimed): in a successful evaluate_robustness call the original
\* prompt is among the evaluated prompts only if the paraphraser returned it
\* as one of the paraphrases at index 1..count, however the call was made.
C3_OriginalOnlyFromParaphraser ==
    (Done /\ IsRobustness /\ args.prompt \in Range(R.perturbed_prompts)) =>
        /\ Paraphrased
        /\ args.prompt \in Range(Tail(paraphrase_calls[1].data))

\* C3 (amended): in a successful evaluate_robustness call the original
\* prompt is among the evaluated prompts only if the paraphraser returned it
\* as one of the paraphrases at index 1..count or the caller supplied it
\* among candidate_prompts.
C3_OriginalOnlyFromCandidates ==
    (Done /\ IsRobustness /\ args.prompt \in Range(R.perturbed_prompts)) =>
        \/ /\ ~CandidatesSupplied /\ Paraphrased
           /\ args.prompt \in Range(Tail(paraphrase_calls[1].data))
        \/ /\ CandidatesSupplied
           /\ args.prompt \in Range(Val(args.prompt_perturbations))

C3_Witness ==
    /\ Done /\ IsRobustness /\ ~CandidatesSupplied /\ Paraphrased
    /\ Len(R.perturbed_prompts) = 2
    /\ args.prompt = R.perturbed_prompts[2]
    /\ args.prompt # R.perturbed_prompts[1]

\* C4: with candidate_prompts supplied (an empty list included) the
\* paraphraser is never called and the supplied prompts are evaluated
\* verbatim and in order, perturbations_per_sample reaching no collaborator;
\* with reference_generation supplied to evaluate_correctness no model call
\* is made for a reference and the result carries the supplied value.
C4_CallerOverride ==
    /\ CandidatesSupplied =>
         /\ paraphrase_calls = <<>>
         /\ \A k \in 1..Len(trace) : trace[k].kind # "paraphrase"
         /\ pc \in {"generate_all", "done"} =>
              evaluate_prompts = (IF IsCorrectness THEN <<args.prompt>>
                                  ELSE <<>>) \o Val(args.prompt_perturbations)
         /\ Done => R.perturbed_prompts = evaluate_prompts
    /\ (IsCorrectness /\ ReferenceSupplied) =>
         /\ Len(llm_calls) <= Len(evaluate_prompts)
         /\ \A i \in 1..Len(llm_calls) :
              llm_calls[i].input = Assembled(evaluate_prompts[i])
         /\ reference_generation = args.reference_generation
         /\ Done => R.reference_generation = Val(args.reference_generation)

C4_Witness ==
    /\ Done /\ IsCorrectness /\ ReferenceSupplied
    /\ args.prompt_perturbations = Some(<<>>)
    /\ Len(llm_calls) = 1

\* C5: when a generation fetch raises, that fetch is the last one made, the
\* same error reaches the caller, no result is returned and the behaviour
\* checker is never invoked.
C5_FailFast ==
    \A i \in 1..Len(llm_calls) :
        ~llm_calls[i].ok =>
            /\ i = Len(llm_calls)
            /\ trace[Len(trace)].kind = "llm"
            /\ pc = "raised"
            /\ raised = Some(llm_calls[i].val)
            /\ result = None
            /\ check_calls = <<>>

C5_Witness ==
    /\ pc = "raised"
    /\ Len(llm_calls) = 3
    /\ ~llm_calls[3].ok
    /\ llm_calls[1].ok /\ llm_calls[2].ok

\* C6 (as claimed): evaluate_correctness called without a reference
\* generation makes no model call and returns no result; it ends in a
\* configuration error raised before any generation call.
C6_ConfigurationErrorFirst ==
    (IsCorrectness /\ ~ReferenceSupplied) =>
        /\ llm_calls = <<>>
        /\ result = None

\* C7: every input sent to the model is pre_context + " " + p + " " +
\* post_context with each context part present only when supplied, p being
\* the original prompt for the reference fetch and the evaluated prompt for
\* a candidate fetch; the paraphraser is handed the core prompt alone.
C7_ContextIsolation ==
    /\ \A i \in 1..Len(llm_calls) :
         llm_calls[i].input =
             Assembled(IF llm_calls[i].phase = "resolve_reference"
                       THEN args.prompt
                       ELSE evaluate_prompts[i - RefCalls])
    /\ \A j \in 1..Len(paraphrase_calls) :
         paraphrase_calls[j].prompt = args.prompt

C7_Witness ==
    /\ Done /\ Paraphrased
    /\ ~IsNone(args.pre_context) /\ ~IsNone(args.post_context)
    /\ Len(llm_calls) = 3
    /\ llm_calls[1].phase = "resolve_reference"
    /\ llm_calls[3].input = <<"c", " ", "q", " ", "e">>
    /\ args.prompt = <<"p">>

\* C8: evaluate_robustness takes no reference from the caller; once past
\* reference resolution exactly one model call has been made for the
\* reference, it is the first collaborator call, its input is the assembled
\* original prompt, and its completion is the reference generation used and
\* returned.
C8_RobustnessReference ==
    IsRobustness =>
        /\ ~ReferenceSupplied
        /\ pc = "resolve_reference" => llm_calls = <<>>
        /\ pc # "resolve_reference" =>
             /\ RefCalls = 1
             /\ llm_calls[1].phase = "resolve_reference"
             /\ trace[1].kind = "llm"
             /\ llm_calls[1].input = Assembled(args.prompt)
             /\ llm_calls[1].ok => reference_generation = Some(llm_calls[1].val)
             /\ Done => R.reference_generation = llm_calls[1].val
             /\ \A k \in 1..Len(check_calls) :
                  check_calls[k].reference_generation = llm_calls[1].val

C8_Witness ==
    /\ Done /\ IsRobustness
    /\ Len(llm_calls) = 3
    /\ R.reference_generation = <<"y">>
    /\ R.perturbed_generations = <<<<"x">>, <<"x">>>>

\* C9: a call moves only forward through reference resolution, candidate
\* resolution, generation and behaviour check; a reference model call
\* precedes a paraphrase call, which precedes every candidate generation
\* call; the checker is invoked at most once and only when every evaluated
\* prompt has its generation; a collaborator failure ends the call with an
\* error and no result; a call ends either with a complete result or with an
\* error and no result.
PhaseRank(p) ==
    CASE p = "idle" -> 0
      [] p = "resolve_reference" -> 1
      [] p = "resolve_candidates" -> 2
      [] p = "generate_all" -> 3
      [] p = "done" -> 4
      [] p = "raised" -> 4

StageOf(e) ==
    CASE e.kind = "llm" /\ e.phase = "resolve_reference" -> 1
      [] e.kind = "paraphrase" /\ e.phase = "resolve_candidates" -> 2
      [] e.kind = "llm" /\ e.phase = "generate_all" -> 3
      [] e.kind = "check" /\ e.phase = "generate_all" -> 4
      [] OTHER -> 0

LastFailed(log) == Len(log) > 0 /\ ~log[Len(log)].ok

C9_PhaseState ==
    /\ \A k \in 1..Len(trace) : StageOf(trace[k]) # 0
    /\ \A i, j \in 1..Len(trace) :
         i < j => /\ StageOf(trace[i]) <= StageOf(trace[j])
                  /\ StageOf(trace[i]) = StageOf(trace[j])
                       => StageOf(trace[i]) = 3
    /\ Len(trace) = Len(llm_calls) + Len(paraphrase_calls) + Len(check_calls)
    /\ Len(check_calls) <= 1
    /\ \A k \in 1..Len(check_calls) :
         /\ Len(check_calls[k].perturbed_generations) = Len(evaluate_prompts)
         /\ Len(llm_calls) = RefCalls + Len(evaluate_prompts)
         /\ \A i \in 1..Len(llm_calls) : llm_calls[i].ok
    /\ (LastFailed(llm_calls) \/ LastFailed(paraphrase_calls)
          \/ LastFailed(check_calls)) => pc = "raised"
    /\ pc = "raised" => /\ result = None
                        /\ ~IsNone(raised)
                        /\ (LastFailed(llm_calls) \/ LastFailed(paraphrase_calls)
                              \/ LastFailed(check_calls))
    /\ pc = "done" => /\ ~IsNone(result)
                      /\ IsNone(raised)
                      /\ Len(check_calls) = 1
                      /\ Len(R.perturbed_generations) = Len(evaluate_prompts)
                      /\ Len(R.result) = Len(evaluate_prompts)
                      /\ Len(R.metric) = Len(evaluate_prompts)
    /\ pc \notin {"done", "raised"} => IsNone(result) /\ IsNone(raised)
    /\ pc \in {"resolve_reference", "resolve_candidates", "generate_all"} =>
         ENABLED (FetchReference \/ KeepReference
                    \/ generate_alternative_prompts \/ KeepPerturbations
                    \/ GenerateNext \/ CheckBehavior)

C9_PhaseStep ==
    pc' # pc => \/ PhaseRank(pc') > PhaseRank(pc)
                \/ pc \in {"done", "raised"} /\ pc' = "idle"

\* C9: in every state the collaborator calls made so far are in phase order
\* and the call's outcome is all-or-nothing (C9_PhaseState), and every step
\* moves the call forward or returns it (C9_PhaseStep).
C9_PhaseOrdering == [](C9_PhaseState) /\ [][C9_PhaseStep]_vars

C9_Witness ==
    /\ Done
    /\ Len(trace) = 5
    /\ trace[1].kind = "llm" /\ trace[2].kind = "paraphrase"
    /\ trace[5].kind = "check"

\* C10: the i-th evaluated generation is the completion of the model call
\* made for the assembled i-th evaluated prompt, the candidate calls being
\* made in list order, one per evaluated prompt; the checker receives exactly
\* the evaluated generations in that order and the i-th pass flag and score
\* are the i-th pair it returned.
C10_ParallelAlignment ==
    /\ pc \in {"generate_all", "done", "raised"} =>
         /\ Len(alternative_generations) <= Len(evaluate_prompts)
         /\ \A i \in 1..Len(alternative_generations) :
              /\ llm_calls[RefCalls + i].ok
              /\ llm_calls[RefCalls + i].input = Assembled(evaluate_prompts[i])
              /\ llm_calls[RefCalls + i].val = alternative_generations[i]
    /\ Done =>
         /\ R.perturbed_prompts = evaluate_prompts
         /\ R.perturbed_generations = alternative_generations
         /\ Len(llm_calls) = RefCalls + Len(R.perturbed_prompts)
         /\ Len(R.perturbed_generations) = Len(R.perturbed_prompts)
         /\ check_calls[1].perturbed_generations = R.perturbed_generations
         /\ \A i \in 1..Len(R.perturbed_prompts) :
              /\ R.result[i] = check_calls[1].metric[i][1]
              /\ R.metric[i] = check_calls[1].metric[i][2]

C10_Witness ==
    /\ Done
    /\ Len(R.perturbed_prompts) = 3
    /\ R.perturbed_prompts[2] = R.perturbed_prompts[3]
    /\ R.perturbed_generations[2] # R.perturbed_generations[3]
    /\ R.result[2] # R.result[3]
====
